---- MODULE Spec2Model ----
(***************************************************************************)
(* Model of eo-visual-scout: the SemanticSearcher (src/eovs/search.py) and *)
(* the FastAPI service boundary (src/eovs/api.py).                         *)
(*                                                                         *)
(* Vectors are sequences of integers.  Cosine similarity is scale          *)
(* invariant, so integer vectors stand for the float rows; similarities    *)
(* are kept exactly as num/sqrt(den) and only turned into a decimal by     *)
(* Round4, the model of round(float(score), 4).  float32 rounding error    *)
(* of the dot products is not modelled.                                    *)
(***************************************************************************)
EXTENDS Integers, Sequences, FiniteSets, TLC

VARIABLES files, model, searcher_instance, phase, last, tmp_file, calls

vars == <<files, model, searcher_instance, phase, last, tmp_file, calls>>

\* Python's None: "None" where the value is otherwise a string (an image,
\* an exception name, a detail text), Null where it is an object, a
\* vector or a list
None == "None"
Null == <<>>

\* ------------------------------------------------------------------------
\* Bounds and program constants
\* ------------------------------------------------------------------------
MaxN == 3
TOP_K_GE == 1
TOP_K_LE == 50
DEFAULT_TOP_K == 5
SCORE_DIGITS == 4

\* The embedding rows and query vectors the model draws from: two
\* orthogonal axes, a row parallel to the first axis, its opposite, an
\* oblique vector (0.9, 0.1 scaled by 10) and the zero vector.
VecPool == { <<1, 0>>, <<0, 1>>, <<2, 0>>, <<-1, 0>>, <<9, 1>>, <<0, 0>> }

\* ------------------------------------------------------------------------
\* util.cos_sim: cosine similarity, kept exactly
\* ------------------------------------------------------------------------
RECURSIVE DotFrom(_, _, _)
DotFrom(a, b, i) ==
    IF i > Len(a) THEN 0 ELSE a[i] * b[i] + DotFrom(a, b, i + 1)

Dot(a, b) == DotFrom(a, b, 1)

\* One similarity value num / sqrt(den).  A zero vector is normalised to
\* itself (x / max(|x|, eps)), which gives similarity 0.
CosPair(q, e) ==
    IF Dot(q, q) = 0 \/ Dot(e, e) = 0
    THEN [num |-> 0, den |-> 1]
    ELSE [num |-> Dot(q, e), den |-> Dot(q, q) * Dot(e, e)]

cos_sim(q, E) == [i \in 1..Len(E) |-> CosPair(q, E[i])]

\* s < t for two similarity values
ScoreLess(s, t) ==
    IF s.num < 0
    THEN IF t.num >= 0 THEN TRUE
         ELSE s.num * s.num * t.den > t.num * t.num * s.den
    ELSE IF t.num < 0 THEN FALSE
         ELSE s.num * s.num * t.den < t.num * t.num * s.den

Pow10(n) == IF n = 0 THEN 1 ELSE IF n = 1 THEN 10 ELSE IF n = 2 THEN 100
            ELSE IF n = 3 THEN 1000 ELSE IF n = 4 THEN 10000 ELSE 100000

Scale == Pow10(SCORE_DIGITS)

\* x * den <= mult * Scale^2 * num2, without leaving 32 bits:
\* -1 (less), 0 (equal), 1 (greater)
CmpScaled(x, den, mult, num2) ==
    LET h  == x \div Scale
        l  == x % Scale
        hi == h * den + ((l * den) \div Scale)
        lo == (l * den) % Scale
        rhs == mult * num2 * Scale
    IN  IF hi < rhs THEN -1
        ELSE IF hi > rhs THEN 1
        ELSE IF lo = 0 THEN 0 ELSE 1

\* largest f in lo..hi with (f / Scale)^2 <= num2 / den
RECURSIVE FloorRoot(_, _, _, _)
FloorRoot(lo, hi, num2, den) ==
    IF lo = hi THEN lo
    ELSE LET mid == (lo + hi + 1) \div 2
         IN  IF CmpScaled(mid * mid, den, 1, num2) <= 0
             THEN FloorRoot(mid, hi, num2, den)
             ELSE FloorRoot(lo, mid - 1, num2, den)

\* round(float(score), 4), as an integer number of 1/Scale units
\* (round half to even)
Round4(s) ==
    LET num2 == s.num * s.num
        f    == FloorRoot(0, Scale, num2, s.den)
        c    == CmpScaled((2 * f + 1) * (2 * f + 1), s.den, 4, num2)
        mag  == IF c < 0 THEN f + 1
                ELSE IF c > 0 THEN f
                ELSE IF f % 2 = 0 THEN f ELSE f + 1
    IN  IF s.num = 0 THEN 0
        ELSE IF num2 = s.den THEN (IF s.num < 0 THEN 0 - Scale ELSE Scale)
        ELSE IF s.num < 0 THEN 0 - mag ELSE mag


\* ------------------------------------------------------------------------
\* Data directory, catalog, encoder
\* ------------------------------------------------------------------------
ClassNames == <<"Forest", "River">>

\* metadata.json as written by ingest: entry i has id i, a file name made
\* of class name and index, and its class name
Catalog(n) ==
    [i \in 1..n |->
        LET c == ClassNames[((i - 1) % Len(ClassNames)) + 1]
        IN  [id |-> i - 1, filename |-> <<c, i - 1>>, class_name |-> c]]

\* all matrices of 1..n rows drawn from pool
MatricesOver(pool, n) == UNION { [1..k -> pool] : k \in 1..n }

\* The data directory: which of the two files exist, and their contents
\* (Null for a file that does not exist)
DataFiles == {"metadata.json", "embeddings.npz"}

DataDirs(pool) ==
    { [exists |-> x,
       metadata |-> IF "metadata.json" \in x THEN m ELSE Null,
       embeddings |-> IF "embeddings.npz" \in x THEN e ELSE Null] :
         x \in SUBSET DataFiles,
         m \in { Catalog(n) : n \in 1..MaxN },
         e \in MatricesOver(pool, MaxN) }

\* Query strings: the empty string, a whitespace-only string, a word
Queries == {"", " ", "forest"}
Images == {"img"}

\* str.strip()
strip(q) == IF q = " " THEN "" ELSE q

\* truth value of a Python str
Truthy(str) == str # ""

\* SentenceTransformer.encode: the pretrained encoder is a fixed map from
\* a text, or from the image stored at a path, to a vector
EncodeText(mdl, text) == mdl.text[text]
EncodeImageFile(mdl, img) == mdl.image[img]

\* the encoders over a pool of vectors; a whitespace-only text gets one
\* fixed vector
BlankTextVec == <<0, 1>>
Encoders(pool) ==
    { [text  |-> [q \in Queries \ {""} |-> IF q = "forest" THEN t ELSE BlankTextVec],
       image |-> [i \in Images |-> v]] : t \in pool, v \in pool }

\* ------------------------------------------------------------------------
\* SemanticSearcher
\* ------------------------------------------------------------------------
\* __init__: both files must exist, then metadata, embeddings and model
\* are loaded
ConstructNoGuard(f, mdl) ==
    [raised |-> None,
     searcher |-> [metadata |-> f.metadata,
                   image_embeddings |-> f.embeddings,
                   model |-> mdl]]

Construct(f, mdl) ==
    IF ~ (DataFiles \subseteq f.exists)
    THEN [raised |-> "FileNotFoundError", searcher |-> Null]
    ELSE [raised |-> None,
          searcher |-> [metadata |-> f.metadata,
                        image_embeddings |-> f.embeddings,
                        model |-> mdl]]

\* search, "encode" part: image first, then non-blank text, else ValueError
EncodeQueryTextFirst(s, query, image) ==
    IF Truthy(query) /\ Truthy(strip(query))
    THEN [raised |-> None, encoded |-> "text",
          query_emb |-> EncodeText(s.model, query)]
    ELSE IF image # None
    THEN [raised |-> None, encoded |-> "image",
          query_emb |-> EncodeImageFile(s.model, image)]
    ELSE [raised |-> "ValueError", encoded |-> None, query_emb |-> Null]

EncodeQueryNoStrip(s, query, image) ==
    IF image # None
    THEN [raised |-> None, encoded |-> "image",
          query_emb |-> EncodeImageFile(s.model, image)]
    ELSE IF Truthy(query)
    THEN [raised |-> None, encoded |-> "text",
          query_emb |-> EncodeText(s.model, query)]
    ELSE [raised |-> "ValueError", encoded |-> None, query_emb |-> Null]

EncodeQuery(s, query, image) ==
    IF image # None
    THEN [raised |-> None, encoded |-> "image",
          query_emb |-> EncodeImageFile(s.model, image)]
    ELSE IF Truthy(query) /\ Truthy(strip(query))
    THEN [raised |-> None, encoded |-> "text",
          query_emb |-> EncodeText(s.model, query)]
    ELSE [raised |-> "ValueError", encoded |-> None, query_emb |-> Null]

\* the orders of the rows in rest that start with a row of least score
\* and go on in the same way
RECURSIVE AscendingOrders(_, _)
AscendingOrders(scores, rest) ==
    IF rest = {} THEN { <<>> }
    ELSE UNION { { <<i>> \o tail : tail \in AscendingOrders(scores, rest \ {i}) } :
                 i \in { a \in rest :
                            \A b \in rest : ~ ScoreLess(scores[b], scores[a]) } }

\* np.argsort(scores), default kind: the row numbers in ascending order
\* of score; the default sort is not stable, so rows with equal scores
\* may come out in any order
argsortDescending(scores) ==
    { [i \in 1..Len(p) |-> p[Len(p) + 1 - i]] :
        p \in AscendingOrders(scores, 1..Len(scores)) }

argsort(scores) == AscendingOrders(scores, 1..Len(scores))

\* seq[::-1]
ReversedNot(seq) == seq

Reversed(seq) == [i \in 1..Len(seq) |-> seq[Len(seq) + 1 - i]]

\* seq[:k]
SliceToAll(seq, k) == seq

SliceTo(seq, k) ==
    LET n == Len(seq)
        m == IF k >= 0 THEN (IF k < n THEN k ELSE n)
             ELSE (IF n + k > 0 THEN n + k ELSE 0)
    IN  SubSeq(seq, 1, m)

\* the result loop: row number p (1-based here, idx_int = p - 1)
ResultOf(s, scores, p) ==
    [id |-> p - 1,
     filename |-> s.metadata[p].filename,
     class_name |-> s.metadata[p].class_name,
     score |-> Round4(scores[p])]

\* "for idx in top_indices: results.append(...)", from position i on
RECURSIVE AppendResults(_, _, _, _)
AppendResults(s, scores, top_indices, i) ==
    IF i > Len(top_indices) THEN <<>>
    ELSE <<ResultOf(s, scores, top_indices[i])>>
         \o AppendResults(s, scores, top_indices, i + 1)

\* search, from "Top-K indices" on, for the similarity values scores
TopK(s, enc, top_k, scores) ==
        { LET top_indices == SliceTo(Reversed(p), top_k)
          IN  IF \E i \in 1..Len(top_indices) : top_indices[i] > Len(s.metadata)
              THEN [raised |-> "IndexError", results |-> <<>>,
                    encoded |-> enc.encoded, query_emb |-> enc.query_emb]
              ELSE [raised |-> None,
                    results |-> AppendResults(s, scores, top_indices, 1),
                    encoded |-> enc.encoded, query_emb |-> enc.query_emb]
          : p \in argsort(scores) }

\* search, from "cosine similarity" on
RankOutcomes(s, enc, top_k) ==
    TopK(s, enc, top_k, cos_sim(enc.query_emb, s.image_embeddings))

\* SemanticSearcher.search: the set of outcomes of one call
searchEmptyOnBlank(s, query, image, top_k) ==
    LET enc == EncodeQuery(s, query, image)
    IN  IF enc.raised # None
        THEN { [raised |-> None, results |-> <<>>,
                encoded |-> None, query_emb |-> Null] }
        ELSE RankOutcomes(s, enc, top_k)

search(s, query, image, top_k) ==
    LET enc == EncodeQuery(s, query, image)
    IN  IF enc.raised # None
        THEN { [raised |-> enc.raised, results |-> <<>>,
                encoded |-> None, query_emb |-> Null] }
        ELSE RankOutcomes(s, enc, top_k)


\* ------------------------------------------------------------------------
\* Service boundary (api.py)
\* ------------------------------------------------------------------------
\* An image_base64 string, as the sequence of its comma-separated pieces
\* ("".split(",") is [""]): empty, a bare payload, a data URI, and a
\* payload that is not an image.
B64Strings ==
    { <<"">>, <<"IMG">>, <<"data:image/jpeg;base64", "IMG">>, <<"junk">> }

\* truth value of such a string
B64Truthy(b64) == b64 # <<"">>

\* request.image_base64.split(",")[-1] if "," in it, else the string
b64_data(b64) == IF Len(b64) > 1 THEN b64[Len(b64)] ELSE b64[1]

\* base64.b64decode + Image.open(...).convert("RGB")
DecodeImage(data) ==
    IF data = "IMG"
    THEN [raised |-> None, image |-> "img"]
    ELSE [raised |-> "Exception", image |-> None]

\* SearchRequest: top_k = Field(ge=1, le=50); query and image_base64 are
\* plain strings defaulting to ""
ValidRequestNoUpper(req) == req.top_k >= TOP_K_GE

ValidRequest(req) == req.top_k >= TOP_K_GE /\ req.top_k <= TOP_K_LE

Response(status, detail, results, invoked, o) ==
    [status |-> status, detail |-> detail, results |-> results,
     invoked |-> invoked, raised |-> o.raised,
     encoded |-> o.encoded, query_emb |-> o.query_emb]

NoCall == [raised |-> None, encoded |-> None, query_emb |-> Null]

\* "if searcher_instance is None"
ModelNotLoadedNever(inst) == FALSE

ModelNotLoaded(inst) == inst = Null

\* searcher_instance.search(...): a method call on the handle
CallSearch(inst, query, image, top_k) ==
    IF inst = Null
    THEN { [raised |-> "AttributeError", results |-> <<>>,
            encoded |-> None, query_emb |-> Null] }
    ELSE search(inst, query, image, top_k)

\* POST /search: request validation, then the handler body.  An exception
\* that leaves the handler is answered with 500.
HandleSearch(inst, req) ==
    IF ~ ValidRequest(req)
    THEN { Response(422, "validation", <<>>, FALSE, NoCall) }
    ELSE IF ModelNotLoaded(inst)
    THEN { Response(503, "Model not loaded", <<>>, FALSE, NoCall) }
    ELSE IF ~ Truthy(req.query) /\ ~ B64Truthy(req.image_base64)
    THEN { Response(400, "Provide either query or image_base64", <<>>,
                    FALSE, NoCall) }
    ELSE LET dec == IF B64Truthy(req.image_base64)
                    THEN DecodeImage(b64_data(req.image_base64))
                    ELSE [raised |-> None, image |-> None]
         IN  IF dec.raised # None
             THEN { Response(400, "Invalid base64 image data", <<>>,
                             FALSE, NoCall) }
             ELSE { IF o.raised # None
                    THEN Response(500, "Internal Server Error", <<>>, TRUE, o)
                    ELSE Response(200, None, o.results, TRUE, o)
                    : o \in CallSearch(inst, req.query, dec.image, req.top_k) }

\* ------------------------------------------------------------------------
\* State machine
\* ------------------------------------------------------------------------
NoLast ==
    [op |-> "none", query |-> None, image |-> None, image_base64 |-> None,
     top_k |-> 0, searcher |-> Null, raised |-> None, status |-> 0,
     detail |-> None, results |-> <<>>, encoded |-> None,
     query_emb |-> Null, invoked |-> FALSE, model_loaded |-> FALSE]

\* top_k values: of direct calls (any int), of requests (around the
\* bounds 1 and 50), and of the ranking runs (every k up to N, and 5)
DirectTopKs == {-1, 0, 1, DEFAULT_TOP_K}
ApiTopKs == {0, 1, DEFAULT_TOP_K, TOP_K_LE + 1}
RankTopKs == {DEFAULT_TOP_K} \cup (1..MaxN)

ServicePool == { <<1, 0>>, <<0, 1>> }

\* The data directory holds any catalog and any matrix, or lacks either
\* file; the service has not started (searcher_instance = Null).
Init ==
    /\ files \in DataDirs(ServicePool)
    /\ model \in Encoders(ServicePool)
    /\ searcher_instance = Null
    /\ phase = "init"
    /\ last = NoLast
    /\ tmp_file = None
    /\ calls = <<>>

\* lifespan, before the yield
Startup ==
    /\ last.op = "none"
    /\ phase = "init"
    /\ LET c == Construct(files, model)
       IN  /\ searcher_instance' = c.searcher
           /\ last' = [NoLast EXCEPT !.op = "startup", !.raised = c.raised]
    /\ phase' = "serving"
    /\ UNCHANGED <<files, model, tmp_file, calls>>

\* lifespan, after the yield
Shutdown ==
    /\ last.op = "none"
    /\ phase = "serving"
    /\ searcher_instance' = Null
    /\ phase' = "stopped"
    /\ last' = [NoLast EXCEPT !.op = "shutdown"]
    /\ UNCHANGED <<files, model, tmp_file, calls>>

\* GET /health
HealthByPhase ==
    /\ last.op = "none"
    /\ last' = [NoLast EXCEPT !.op = "health", !.status = 200, !.detail = "ok",
                               !.model_loaded = (phase = "serving")]
    /\ UNCHANGED <<files, model, searcher_instance, phase, tmp_file, calls>>

Health ==
    /\ last.op = "none"
    /\ last' = [NoLast EXCEPT !.op = "health", !.status = 200, !.detail = "ok",
                               !.model_loaded = (searcher_instance # Null)]
    /\ UNCHANGED <<files, model, searcher_instance, phase, tmp_file, calls>>

\* POST /search
PostSearchLazyLoad(req) ==
    /\ last.op = "none"
    /\ searcher_instance' = Construct(files, model).searcher
    /\ \E r \in HandleSearch(searcher_instance', req) :
          last' = [NoLast EXCEPT !.op = "post", !.query = req.query,
                                 !.image_base64 = req.image_base64,
                                 !.top_k = req.top_k,
                                 !.searcher = searcher_instance',
                                 !.raised = r.raised, !.status = r.status,
                                 !.detail = r.detail, !.results = r.results,
                                 !.encoded = r.encoded,
                                 !.query_emb = r.query_emb,
                                 !.invoked = r.invoked]
    /\ UNCHANGED <<files, model, phase, tmp_file, calls>>

PostSearch(req) ==
    /\ last.op = "none"
    /\ \E r \in HandleSearch(searcher_instance, req) :
          last' = [op |-> "post", query |-> req.query, image |-> None,
                   image_base64 |-> req.image_base64, top_k |-> req.top_k,
                   searcher |-> searcher_instance, raised |-> r.raised,
                   status |-> r.status, detail |-> r.detail,
                   results |-> r.results, encoded |-> r.encoded,
                   query_emb |-> r.query_emb, invoked |-> r.invoked,
                   model_loaded |-> FALSE]
    /\ UNCHANGED <<files, model, searcher_instance, phase, tmp_file, calls>>

\* a direct call of search on a SemanticSearcher built from the data
\* directory (main, the unit tests)
SearcherSearch(query, image, top_k) ==
    /\ last.op = "none"
    /\ Construct(files, model).raised = None
    /\ LET s == Construct(files, model).searcher
       IN  \E o \in search(s, query, image, top_k) :
              last' = [op |-> "search", query |-> query, image |-> image,
                       image_base64 |-> None, top_k |-> top_k,
                       searcher |-> s, raised |-> o.raised, status |-> 0,
                       detail |-> None, results |-> o.results,
                       encoded |-> o.encoded, query_emb |-> o.query_emb,
                       invoked |-> TRUE, model_loaded |-> FALSE]
    /\ UNCHANGED <<files, model, searcher_instance, phase, tmp_file, calls>>

\* The caller has received the outcome of its call; calls are made one
\* at a time, and `last' holds the outcome of the call being observed.
Return ==
    /\ last.op # "none"
    /\ last' = NoLast
    /\ UNCHANGED <<files, model, searcher_instance, phase, tmp_file, calls>>

Requests == [query : Queries, image_base64 : B64Strings, top_k : ApiTopKs]

Next ==
    \/ Startup
    \/ Shutdown
    \/ Health
    \/ \E req \in Requests : PostSearch(req)
    \/ \E query \in Queries, image \in {None} \cup Images, top_k \in DirectTopKs :
          SearcherSearch(query, image, top_k)
    \/ Return

Spec == Init /\ [][Next]_vars

\* ------------------------------------------------------------------------
\* Ranking alone: every aligned index over VecPool, every query vector
\* ------------------------------------------------------------------------
RankInit ==
    /\ \E E \in MatricesOver(VecPool, MaxN) :
          files = [exists |-> DataFiles,
                   metadata |-> Catalog(Len(E)), embeddings |-> E]
    /\ model \in { m \in Encoders(VecPool) : m.text["forest"] = m.image["img"] }
    /\ searcher_instance = Null
    /\ phase = "init"
    /\ last = NoLast
    /\ tmp_file = None
    /\ calls = <<>>

RankNext ==
    \/ \E top_k \in RankTopKs : SearcherSearch("forest", None, top_k)
    \/ Return

RankSpec == RankInit /\ [][RankNext]_vars


\* ------------------------------------------------------------------------
\* Building the data directory: ingest.py and build_embeddings.py
\* ------------------------------------------------------------------------
\* the hub dataset; image i is saved as file i of images/
DatasetLen == MaxN

\* limit: None (Null) or <<n>>
Limits == {Null} \cup { <<n>> : n \in 0..DatasetLen }

\* the number of images an ingestion with this limit goes through
Total(limit) ==
    IF limit = Null THEN DatasetLen
    ELSE IF limit[1] < DatasetLen THEN limit[1] ELSE DatasetLen

\* model.encode of the dataset image i opened from images/
EncodeDatasetImage(i) == <<i + 1, 1>>

\* ingest_eurosat on data directory f.  saved = -1: it runs to the end;
\* saved = k >= 0: an exception (load_dataset, convert, save) is raised
\* when k images of this run have been saved, before metadata is written.
ingest_eurosat(f, limit, force, saved) ==
    IF "metadata.json" \in f.exists /\ ~ force
    THEN [raised |-> None, files |-> f]
    ELSE LET total == Total(limit)
             done  == IF saved >= 0 /\ saved < total THEN saved ELSE total
         IN  IF saved >= 0
             THEN [raised |-> "Exception",
                   files |-> [f EXCEPT !.exists = @ \cup {"images"},
                                       !.images = @ \cup (0..(done - 1))]]
             ELSE [raised |-> None,
                   files |-> [f EXCEPT !.exists = @ \cup {"images", "metadata.json"},
                                       !.images = @ \cup (0..(total - 1)),
                                       !.metadata = Catalog(total)]]

\* build_image_embeddings on data directory f.  fails: loading the model
\* or encoding raises; nothing is written before np.savez_compressed.
build_image_embeddings(f, force, fails) ==
    IF "embeddings.npz" \in f.exists /\ ~ force
    THEN [raised |-> None, files |-> f]
    ELSE IF "metadata.json" \notin f.exists \/ "images" \notin f.exists
    THEN [raised |-> "FileNotFoundError", files |-> f]
    ELSE IF fails
    THEN [raised |-> "Exception", files |-> f]
    ELSE IF \E i \in 1..Len(f.metadata) : f.metadata[i].id \notin f.images
    THEN [raised |-> "FileNotFoundError", files |-> f]
    ELSE IF Len(f.metadata) = 0
    THEN [raised |-> "ValueError", files |-> f]
    ELSE [raised |-> None,
          files |-> [f EXCEPT !.exists = @ \cup {"embeddings.npz"},
                              !.embeddings =
                                  [i \in 1..Len(f.metadata) |->
                                      EncodeDatasetImage(f.metadata[i].id)]]]

\* an empty data directory
BuildInit ==
    /\ files = [exists |-> {}, metadata |-> Null, embeddings |-> Null,
                images |-> {}]
    /\ model \in Encoders(ServicePool)
    /\ searcher_instance = Null
    /\ phase = "init"
    /\ last = NoLast
    /\ tmp_file = None
    /\ calls = <<>>

IngestEurosat(limit, force, saved) ==
    /\ LET r == ingest_eurosat(files, limit, force, saved)
       IN  /\ files' = r.files
           /\ last' = [NoLast EXCEPT !.op = "ingest", !.raised = r.raised]
    /\ UNCHANGED <<model, searcher_instance, phase, tmp_file, calls>>

BuildImageEmbeddings(force, fails) ==
    /\ LET r == build_image_embeddings(files, force, fails)
       IN  /\ files' = r.files
           /\ last' = [NoLast EXCEPT !.op = "build", !.raised = r.raised]
    /\ UNCHANGED <<model, searcher_instance, phase, tmp_file, calls>>

BuildNext ==
    \/ \E limit \in Limits, force \in BOOLEAN, saved \in (-1)..DatasetLen :
          IngestEurosat(limit, force, saved)
    \/ \E force \in BOOLEAN, fails \in BOOLEAN :
          BuildImageEmbeddings(force, fails)

BuildSpec == BuildInit /\ [][BuildNext]_vars

\* ------------------------------------------------------------------------
\* Searches running at the same time on one searcher, statement by
\* statement; tmp_file is <tmpdir>/_eovs_query.jpg
\* ------------------------------------------------------------------------
MaxCalls == 2

ConcImages == {"img", "img2"}

\* encoders that know both images
ConcEncoders ==
    { [text  |-> [q \in Queries \ {""} |-> IF q = "forest" THEN t ELSE BlankTextVec],
       image |-> [i \in ConcImages |-> IF i = "img" THEN v ELSE w]] :
         t \in ServicePool, v \in ServicePool, w \in ServicePool }

IdleCall ==
    [pc |-> "idle", query |-> None, image |-> None, top_k |-> 0,
     raised |-> None, query_emb |-> Null, results |-> <<>>]

\* a loaded searcher over the index [[1,0],[0,1]], nobody searching
ConcInit ==
    /\ files = [exists |-> DataFiles, metadata |-> Catalog(2),
                embeddings |-> << <<1, 0>>, <<0, 1>> >>]
    /\ model \in ConcEncoders
    /\ searcher_instance = Construct(files, model).searcher
    /\ phase = "serving"
    /\ last = NoLast
    /\ tmp_file = None
    /\ calls = [p \in 1..MaxCalls |-> IdleCall]

\* search is entered: with an image, image.save(tmp_path); with a
\* non-blank text, model.encode(query); else ValueError
BeginSearch(p, query, image, top_k) ==
    /\ calls[p].pc = "idle"
    /\ LET c == [IdleCall EXCEPT !.query = query, !.image = image,
                                 !.top_k = top_k]
       IN  IF image # None
           THEN /\ tmp_file' = image
                /\ calls' = [calls EXCEPT ![p] = [c EXCEPT !.pc = "encode"]]
           ELSE /\ tmp_file' = tmp_file
                /\ LET enc == EncodeQuery(searcher_instance, query, image)
                   IN  calls' = [calls EXCEPT ![p] =
                          IF enc.raised # None
                          THEN [c EXCEPT !.pc = "raised", !.raised = enc.raised]
                          ELSE [c EXCEPT !.pc = "rank",
                                         !.query_emb = enc.query_emb]]
    /\ UNCHANGED <<files, model, searcher_instance, phase, last>>

\* model.encode([tmp_path]): the file now at the path is encoded
EncodeTmpFile(p) ==
    /\ calls[p].pc = "encode"
    /\ calls' = [calls EXCEPT ![p] =
          IF tmp_file = None
          THEN [@ EXCEPT !.pc = "raised", !.raised = "FileNotFoundError"]
          ELSE [@ EXCEPT !.pc = "unlink",
                         !.query_emb = EncodeImageFile(searcher_instance.model,
                                                       tmp_file)]]
    /\ UNCHANGED <<files, model, searcher_instance, phase, last, tmp_file>>

\* os.unlink(tmp_path)
UnlinkTmpFile(p) ==
    /\ calls[p].pc = "unlink"
    /\ IF tmp_file = None
       THEN /\ calls' = [calls EXCEPT ![p] =
                   [@ EXCEPT !.pc = "raised", !.raised = "FileNotFoundError"]]
            /\ tmp_file' = tmp_file
       ELSE /\ calls' = [calls EXCEPT ![p] = [@ EXCEPT !.pc = "rank"]]
            /\ tmp_file' = None
    /\ UNCHANGED <<files, model, searcher_instance, phase, last>>

\* cosine similarity, top-k and the result list
RankAndReturn(p) ==
    /\ calls[p].pc = "rank"
    /\ \E o \in RankOutcomes(searcher_instance,
                              [encoded |-> None, query_emb |-> calls[p].query_emb],
                              calls[p].top_k) :
          calls' = [calls EXCEPT ![p] =
                       [@ EXCEPT !.pc = IF o.raised # None THEN "raised"
                                        ELSE "returned",
                                 !.raised = o.raised,
                                 !.results = o.results]]
    /\ UNCHANGED <<files, model, searcher_instance, phase, last, tmp_file>>

\* the caller takes the outcome and may search again
EndSearch(p) ==
    /\ calls[p].pc \in {"returned", "raised"}
    /\ calls' = [calls EXCEPT ![p] = IdleCall]
    /\ UNCHANGED <<files, model, searcher_instance, phase, last, tmp_file>>

ConcNext ==
    \E p \in 1..MaxCalls :
        \/ \E query \in Queries, image \in {None} \cup ConcImages :
              BeginSearch(p, query, image, 1)
        \/ EncodeTmpFile(p)
        \/ UnlinkTmpFile(p)
        \/ RankAndReturn(p)
        \/ EndSearch(p)

ConcSpec == ConcInit /\ [][ConcNext]_vars

\* ------------------------------------------------------------------------
\* Properties
\* ------------------------------------------------------------------------
\* the call observed in `last' is a search that returned a list
Returned == last.op = "search" /\ last.raised = None

\* rows a and b point the same way (cosine similarity exactly 1)
SameDirection(a, b) ==
    /\ Dot(a, b) > 0
    /\ Dot(a, b) * Dot(a, b) = Dot(a, a) * Dot(b, b)

\* the 1-based rows named by a result list
RowsOf(results) == { results[i].id + 1 : i \in 1..Len(results) }

\* C1: for an aligned index of N rows and 1 <= k <= N, search returns k
\* distinct catalog entries, each carrying its own row's rounded score, and
\* no row left out is strictly more similar to the query than a returned
\* one; E = [[1,0],[0,1]], q = [0.9,0.1] (here 9,1), k = 2 gives id 0
\* (0.9939) then id 1 (0.1104).
C1_TopKHighestSimilarity ==
    (/\ Returned
     /\ Len(last.searcher.metadata) = Len(last.searcher.image_embeddings)
     /\ last.top_k >= 1
     /\ last.top_k <= Len(last.searcher.image_embeddings))
    => LET E      == last.searcher.image_embeddings
           scores == [i \in 1..Len(E) |-> CosPair(last.query_emb, E[i])]
           chosen == RowsOf(last.results)
       IN  /\ Len(last.results) = last.top_k
           /\ Cardinality(chosen) = last.top_k
           /\ chosen \subseteq 1..Len(E)
           /\ \A i \in chosen : \A j \in (1..Len(E)) \ chosen :
                 ~ ScoreLess(scores[i], scores[j])
           /\ \A i \in 1..Len(last.results) :
                 LET r == last.results[i]
                 IN  /\ r.filename = last.searcher.metadata[r.id + 1].filename
                     /\ r.class_name = last.searcher.metadata[r.id + 1].class_name
                     /\ r.score = Round4(scores[r.id + 1])
           /\ (E = << <<1, 0>>, <<0, 1>> >> /\ last.query_emb = <<9, 1>>
               /\ last.top_k = 2)
              => /\ last.results[1].id = 0 /\ last.results[1].score = 9939
                 /\ last.results[2].id = 1 /\ last.results[2].score = 1104

\* a top-2 of 3 rows in which the row left out is strictly less similar
C1_Witness ==
    /\ Returned
    /\ Len(last.searcher.image_embeddings) = 3
    /\ last.top_k = 2
    /\ Len(last.results) = 2
    /\ \E j \in (1..3) \ RowsOf(last.results) :
          ScoreLess(CosPair(last.query_emb, last.searcher.image_embeddings[j]),
                    CosPair(last.query_emb,
                            last.searcher.image_embeddings[last.results[2].id + 1]))

\* C2: the scores of a returned list never increase from one position to
\* the next.
C2_ScoresNonIncreasing ==
    Returned =>
        \A i, j \in 1..Len(last.results) :
            i < j => last.results[i].score >= last.results[j].score

\* a list of three strictly decreasing scores
C2_Witness ==
    /\ Returned
    /\ Len(last.results) = 3
    /\ last.results[1].score > last.results[2].score
    /\ last.results[2].score > last.results[3].score

\* C3: rows with equal similarity appear lower row index first, and when
\* only some of them fit in the top k the lower-index ones are kept.
C3_TiesLowerIndexFirst ==
    Returned =>
        LET E      == last.searcher.image_embeddings
            scores == [i \in 1..Len(E) |-> CosPair(last.query_emb, E[i])]
            Tied(a, b) == ~ ScoreLess(scores[a], scores[b])
                          /\ ~ ScoreLess(scores[b], scores[a])
        IN  /\ \A i, j \in 1..Len(last.results) :
                  (i < j /\ Tied(last.results[i].id + 1, last.results[j].id + 1))
                  => last.results[i].id < last.results[j].id
            /\ \A a \in RowsOf(last.results) :
                  \A b \in (1..Len(E)) \ RowsOf(last.results) :
                      Tied(a, b) => a < b

\* C4: a search that got past encoding on an aligned index of N rows with
\* k >= 1 returns a list of exactly min(k, N) entries and does not fail.
C4_ExactlyMinKN ==
    (/\ last.op = "search"
     /\ last.encoded # None
     /\ Len(last.searcher.metadata) = Len(last.searcher.image_embeddings)
     /\ last.top_k >= 1)
    => LET N == Len(last.searcher.image_embeddings)
       IN  /\ last.raised = None
           /\ Len(last.results) = IF last.top_k < N THEN last.top_k ELSE N

\* k = 5 on a 3-row index is capped at 3
C4_Witness ==
    /\ Returned
    /\ last.top_k = DEFAULT_TOP_K
    /\ Len(last.searcher.image_embeddings) = 3
    /\ Len(last.results) = 3


EmptyQueryCall ==
    /\ last.op = "search"
    /\ last.query = ""
    /\ last.image = None
    /\ last.top_k = DEFAULT_TOP_K
    /\ Len(last.searcher.metadata) = 3
    /\ Len(last.searcher.image_embeddings) = 3

C7_ImageTakesPrecedence ==
    /\ (last.op = "search" /\ last.image # None /\ last.query # "")
       => /\ [raised |-> last.raised, results |-> last.results,
              encoded |-> last.encoded, query_emb |-> last.query_emb]
                 \in search(last.searcher, "", last.image, last.top_k)
          /\ last.encoded = "image"
          /\ last.query_emb = last.searcher.model.image[last.image]
    /\ (last.op = "post" /\ last.image_base64 # <<"">> /\ last.query # "")
       => /\ \E r \in HandleSearch(last.searcher,
                        [query |-> "", image_base64 |-> last.image_base64,
                         top_k |-> last.top_k]) :
                /\ r.status = last.status
                /\ r.results = last.results
                /\ r.encoded = last.encoded
                /\ r.query_emb = last.query_emb
          /\ last.encoded # "text"

\* POST /search with text and image answered 200 with the image's top-1
\* where the text alone has a different top-1
C7_Witness ==
    /\ last.op = "post"
    /\ last.status = 200
    /\ last.query = "forest"
    /\ last.image_base64 # <<"">>
    /\ last.encoded = "image"
    /\ Len(last.results) >= 1
    /\ \A o \in search(last.searcher, last.query, None, last.top_k) :
          o.raised = None /\ o.results[1].id # last.results[1].id

\* C8 as claimed: on a matrix without zero rows, with 1 <= k <= N, a
\* query vector equal to row i comes back with row i first, score 1.0.
C8_OwnRowIsTop1 ==
    (/\ Returned
     /\ Len(last.searcher.metadata) = Len(last.searcher.image_embeddings)
     /\ last.top_k >= 1
     /\ last.top_k <= Len(last.searcher.image_embeddings)
     /\ \A j \in 1..Len(last.searcher.image_embeddings) :
           Dot(last.searcher.image_embeddings[j],
               last.searcher.image_embeddings[j]) # 0)
    => \A i \in 1..Len(last.searcher.image_embeddings) :
          last.searcher.image_embeddings[i] = last.query_emb
          => (last.results[1].id = i - 1 /\ last.results[1].score = Scale)

\* C8 as amended: the first result has score 1.0 and is a row pointing the
\* same way as row i (row i or a row equal or parallel to it); it is row i
\* itself when no other row is equal or parallel to row i.
C8_OwnDirectionIsTop1 ==
    (/\ Returned
     /\ Len(last.searcher.metadata) = Len(last.searcher.image_embeddings)
     /\ last.top_k >= 1
     /\ last.top_k <= Len(last.searcher.image_embeddings)
     /\ \A j \in 1..Len(last.searcher.image_embeddings) :
           Dot(last.searcher.image_embeddings[j],
               last.searcher.image_embeddings[j]) # 0)
    => LET E == last.searcher.image_embeddings
       IN  \A i \in 1..Len(E) :
              E[i] = last.query_emb
              => /\ last.results[1].score = Scale
                 /\ SameDirection(E[last.results[1].id + 1], E[i])
                 /\ (\A j \in (1..Len(E)) \ {i} : ~ SameDirection(E[j], E[i]))
                    => last.results[1].id = i - 1

\* the query is row 1, row 2 is a different row parallel to it, and the
\* first result has score 1.0
C8_Witness ==
    /\ Returned
    /\ Len(last.searcher.image_embeddings) >= 2
    /\ last.top_k = 1
    /\ last.searcher.image_embeddings[1] = last.query_emb
    /\ last.searcher.image_embeddings[2] # last.query_emb
    /\ SameDirection(last.searcher.image_embeddings[2], last.query_emb)
    /\ last.results[1].score = Scale

\* C9: while searcher_instance is None, a POST /search that passes request
\* validation is answered 503 "Model not loaded"; search is not called
\* and nothing is encoded.
C9_NotLoadedAnswers503 ==
    (/\ last.op = "post"
     /\ last.searcher = Null
     /\ last.top_k >= TOP_K_GE
     /\ last.top_k <= TOP_K_LE)
    => /\ last.status = 503
       /\ last.detail = "Model not loaded"
       /\ ~ last.invoked
       /\ last.encoded = None
       /\ last.results = <<>>

\* a request with a text and an image answered 503 after a failed load
C9_Witness ==
    /\ last.op = "post"
    /\ phase = "serving"
    /\ searcher_instance = Null
    /\ last.query = "forest"
    /\ last.image_base64 = <<"IMG">>
    /\ last.status = 503

\* C10: a POST /search with an empty query and an empty image_base64 (and
\* a top_k within bounds) is answered with an invalid-argument error (400
\* or 422); search is not called and nothing is encoded.
C10_NeitherFormIsInvalidArgument ==
    (/\ last.op = "post"
     /\ last.query = ""
     /\ last.image_base64 = <<"">>
     /\ last.top_k >= TOP_K_GE
     /\ last.top_k <= TOP_K_LE)
    => /\ last.status \in {400, 422}
       /\ ~ last.invoked
       /\ last.encoded = None


\* C11: POST /search with {query: "", top_k: 5} and no image is answered
\* 422 by request validation, whether or not the searcher is loaded.
C11_EmptyQueryIs422 ==
    (/\ last.op = "post"
     /\ last.query = ""
     /\ last.image_base64 = <<"">>
     /\ last.top_k = DEFAULT_TOP_K)
    => last.status = 422

\* C12: a POST /search whose top_k is below 1 or above 50 is answered 422
\* without running the handler body, loaded or not; whenever the service
\* calls search, top_k is within 1..50.
C12_TopKOutOfBoundsIs422 ==
    /\ (last.op = "post" /\ (last.top_k < TOP_K_GE \/ last.top_k > TOP_K_LE))
       => /\ last.status = 422
          /\ ~ last.invoked
          /\ last.encoded = None
          /\ last.results = <<>>
    /\ (last.op = "post" /\ last.invoked)
       => (last.top_k >= TOP_K_GE /\ last.top_k <= TOP_K_LE)

\* top_k = 51 with a text query is answered 422 by a loaded service
C12_Witness ==
    /\ last.op = "post"
    /\ searcher_instance # Null
    /\ last.query = "forest"
    /\ last.top_k = TOP_K_LE + 1
    /\ last.status = 422

\* C13: when metadata.json or embeddings.npz is missing, startup ends in
\* FileNotFoundError with no searcher published; from then on
\* searcher_instance stays None and every schema-valid POST /search is
\* answered 503.
C13_MissingFilesNeverLoaded ==
    (phase # "init" /\ ~ ({"metadata.json", "embeddings.npz"} \subseteq files.exists))
    => /\ searcher_instance = Null
       /\ last.op = "startup" => last.raised = "FileNotFoundError"
       /\ (last.op = "post" /\ last.top_k >= TOP_K_GE /\ last.top_k <= TOP_K_LE)
          => (last.status = 503 /\ ~ last.invoked)

\* only metadata.json exists; after startup a text query is answered 503
C13_Witness ==
    /\ files.exists = {"metadata.json"}
    /\ phase = "serving"
    /\ searcher_instance = Null
    /\ last.op = "post"
    /\ last.query = "forest"
    /\ last.image_base64 = <<"">>
    /\ last.status = 503

\* C15: a search that reaches ranking on a searcher whose catalog length
\* differs from its matrix row count never returns results: the direct
\* call raises, the service does not answer 200.
C15_MisalignedNeverServed ==
    (/\ last.op \in {"search", "post"}
     /\ last.searcher # Null
     /\ last.encoded # None
     /\ Len(last.searcher.metadata) # Len(last.searcher.image_embeddings))
    => /\ last.raised # None
       /\ last.results = <<>>
       /\ last.status # 200

\* C19: a POST /search on a loaded service that does not answer 200
\* answers 503, 400 or 422; a whitespace-only query without an image is
\* answered 400 or 422.
C19_FailuresAreDeclared ==
    (last.op = "post" /\ last.searcher # Null)
    => /\ last.status \in {200, 503, 400, 422}
       /\ (last.query = " " /\ last.image_base64 = <<"">>
           /\ last.top_k >= TOP_K_GE /\ last.top_k <= TOP_K_LE)
          => last.status \in {400, 422}


\* C16: no search request and no direct search changes the data files,
\* the encoder, the loaded searcher (its metadata and image_embeddings) or
\* the handle; the handle changes only from None at startup and only to
\* None at shutdown.
C16_SearchLeavesIndexAlone ==
    [][ /\ (last'.op \in {"post", "search", "health"})
           => /\ searcher_instance' = searcher_instance
              /\ files' = files
              /\ model' = model
              /\ phase' = phase
        /\ (searcher_instance' # searcher_instance)
           => \/ /\ last'.op = "startup"
                 /\ searcher_instance = Null
                 /\ searcher_instance'.metadata = files.metadata
                 /\ searcher_instance'.image_embeddings = files.embeddings
              \/ /\ last'.op = "shutdown"
                 /\ searcher_instance' = Null ]_vars

\* a request answered 200 by the searcher that startup loaded from the
\* files
C16_Witness ==
    /\ last.op = "post"
    /\ last.status = 200
    /\ phase = "serving"
    /\ searcher_instance = last.searcher
    /\ searcher_instance.metadata = files.metadata
    /\ searcher_instance.image_embeddings = files.embeddings

\* C18: GET /health answers 200 with status "ok" and model_loaded telling
\* whether searcher_instance is set: false before startup, after a failed
\* load and after shutdown, true between a successful load and shutdown;
\* model_loaded is false exactly when schema-valid searches are answered
\* 503.
C18_HealthTellsLoaded ==
    last.op = "health"
    => /\ last.status = 200
       /\ last.detail = "ok"
       /\ last.model_loaded = (searcher_instance # Null)
       /\ phase \in {"init", "stopped"} => ~ last.model_loaded
       /\ phase = "serving"
          => (last.model_loaded
              = ({"metadata.json", "embeddings.npz"} \subseteq files.exists))
       /\ \A req \in Requests :
             (req.top_k >= TOP_K_GE /\ req.top_k <= TOP_K_LE)
             => \A r \in HandleSearch(searcher_instance, req) :
                   (~ last.model_loaded) = (r.status = 503)

\* after shutdown of a service that had loaded, health says false again
C18_Witness ==
    /\ last.op = "health"
    /\ phase = "stopped"
    /\ {"metadata.json", "embeddings.npz"} \subseteq files.exists
    /\ ~ last.model_loaded


\* C14: after any runs of ingest_eurosat and build_image_embeddings,
\* whenever metadata.json and embeddings.npz both exist the matrix has as
\* many rows as the catalog has entries and row i is the encoding of the
\* image of entry i.
C14_MatrixMatchesCatalog ==
    ({"metadata.json", "embeddings.npz"} \subseteq files.exists)
    => /\ Len(files.embeddings) = Len(files.metadata)
       /\ \A i \in 1..Len(files.embeddings) :
             files.embeddings[i] = <<files.metadata[i].id + 1, 1>>


\* C17: however searches interleave, none fails on the temporary file,
\* each image search scores the encoding of its own image, and each
\* returns a result it could return when run alone.
C17_SearchesDoNotInterfere ==
    \A p \in DOMAIN calls :
        /\ calls[p].raised # "FileNotFoundError"
        /\ (calls[p].image # None /\ calls[p].query_emb # Null)
           => calls[p].query_emb = model.image[calls[p].image]
        /\ calls[p].pc = "returned"
           => \E o \in search(searcher_instance, calls[p].query,
                              calls[p].image, calls[p].top_k) :
                 o.raised = None /\ o.results = calls[p].results

====
